---- MODULE Spec2Model ----
(***************************************************************************)
(* Cerberus manifest containers (src/manifest/container.rs): the parser    *)
(* Container::parse_and_verify, the rollback gate Container::can_replace,  *)
(* the re-serialiser Container::containerize and the incremental builder   *)
(* Containerizer (new, with_type, with_metadata, write_bytes, sign).       *)
(*                                                                         *)
(* Bytes are the integers 0..255.  A u16 is an integer 0..65535.  Wider    *)
(* integers (the u32 version id, the usize lengths of the signer) are      *)
(* little-endian sequences of 16-bit limbs, so that values up to 2^32 - 1  *)
(* and 2^64 - 1 keep their width.                                          *)
(*                                                                         *)
(* The atom rule of the test macro raw_cbor! (src/cert/cbor_macro.rs) is   *)
(* modelled next to it, under its own specification SpecCbor: its inputs   *)
(* are a major type, an optional forced width and a 64-bit argument.       *)
(***************************************************************************)
EXTENDS Integers, Sequences, FiniteSets, TLC

VARIABLES
    pubLen,        \* signer.pub_len().byte_len() of the key in use (usize limbs)
    issued,        \* engine: the messages signed so far, in order of first signing
    phase,         \* "idle" | "open" | "dropped" | "signed" | "loaded"
    builder,       \* the Containerizer: [cursor: [buf, pos], has_type, has_metadata]
    given,         \* what the caller passed: [tag, id, body, align, err]
    signRes,       \* what sign returned: [kind, bytes, invoked]
    wire,          \* the buffer handed to parse_and_verify: [bytes, align, flip, cut]
    accepted,      \* the view of wire before it was tampered with
    view,          \* what parse_and_verify returned
    recon,         \* what containerize returned: [kind, bytes, outLen, signerOk]
    replace,       \* what can_replace returned: [done, other, result]
    cbor           \* one atom of raw_cbor!: [ty, len, arg, out: [kind, bytes]]

vars == <<pubLen, issued, phase, builder, given, signRes, wire, accepted, view,
          recon, replace, cbor>>

----------------------------------------------------------------------------
(* Bounds of the model. *)

\* Longest body written into a container.
MaxBody == 2
\* Longest signature a key of the model produces in full (larger keys only
\* reach the length checks of sign).
MaxSig == 2
\* Most bytes a buffer holds beyond the end of the container.
MaxExtra == 1
\* How far on either side of each size-class boundary the arguments of an
\* atom are taken.
ArgSpread == 1

----------------------------------------------------------------------------
(* Program constants. *)

\* Offsets for fields within the container header.
LEN_OFFSET == 0
TYPE_OFFSET == 2

\* A wrong offset: the id placed four bytes after the type's offset, where
\* sig_len lies, not right after the type.
BadIdOffset == TYPE_OFFSET + 4

ID_OFFSET == 4
SIG_LEN_OFFSET == 8
\* The length of the container header in bytes.
HEADER_LEN == 2 + 2 + 4 + 2 + 2
U16_MAX == 65535

----------------------------------------------------------------------------
(* Integers of a fixed width. *)

\* The base of the limbs.
Limb == 2 ^ 16

\* A small natural as a usize (four limbs) or a u32 (two limbs).
ToLimbs(n, k) == [i \in 1..k |-> IF i = 1 THEN n % Limb
                                 ELSE IF i = 2 THEN n \div Limb ELSE 0]

\* The limbs beyond the first are zero: the value fits in 16 bits.
FitsU16(l) == \A i \in 2..Len(l) : l[i] = 0

\* `x as u16`: the low 16 bits.
AsU16(l) == l[1]

RECURSIVE CarryInto(_, _, _)
\* The carry into limb i of a + b.
CarryInto(a, b, i) ==
    IF i = 1 THEN 0 ELSE (a[i - 1] + b[i - 1] + CarryInto(a, b, i - 1)) \div Limb

\* usize::checked_add: [some, val].
CheckedAdd(a, b) ==
    LET n == Len(a) IN
    [some |-> CarryInto(a, b, n + 1) = 0,
     val  |-> [i \in 1..n |-> (a[i] + b[i] + CarryInto(a, b, i)) % Limb]]

RECURSIVE GeqFrom(_, _, _)
\* a >= b on limbs i..1, most significant first.
GeqFrom(a, b, i) ==
    IF i = 0 THEN TRUE
    ELSE IF a[i] # b[i] THEN a[i] > b[i]
    ELSE GeqFrom(a, b, i - 1)

\* Unsigned comparison of two integers of the same width.
Geq(a, b) == GeqFrom(a, b, Len(a))

\* to_le_bytes of a u16.
Le16(v) == <<v % 256, (v \div 256) % 256>>

\* to_le_bytes of a limb sequence.
LeBytes(l) == [i \in 1..(2 * Len(l)) |-> Le16(l[(i + 1) \div 2])[2 - (i % 2)]]

\* from_le_bytes of two bytes.
U16At(buf, off) == buf[off + 1] + 256 * buf[off + 2]

\* from_le_bytes of four bytes, as a u32.
U32At(buf, off) == <<U16At(buf, off), U16At(buf, off + 2)>>

\* The byte with one bit inverted.
FlipBit(byte, bit) ==
    IF (byte \div (2 ^ bit)) % 2 = 1 THEN byte - 2 ^ bit ELSE byte + 2 ^ bit

\* buf[from..to) as Rust slices it.
Slice(buf, from, to) == SubSeq(buf, from + 1, to)

----------------------------------------------------------------------------
(* The manifest type registry (crate::manifest::ManifestType). *)

\* The tags: Fpm, whose magic is 0xDA0E, and a second type with a magic of
\* its own.
Tags == {"Fpm", "Pfm"}

\* WireEnum::to_wire_value
to_wire_value(tag) == IF tag = "Fpm" THEN 55822 ELSE 28781

\* WireEnum::from_wire_value; None is "none".
from_wire_value(magic) ==
    IF \E t \in Tags : to_wire_value(t) = magic
    THEN CHOOSE t \in Tags : to_wire_value(t) = magic
    ELSE "none"

----------------------------------------------------------------------------
(* The signature engine (crate::crypto::rsa): a deterministic scheme in    *)
(* which verify accepts exactly the signatures sign produced.  A message   *)
(* gets the signature of its rank among the messages signed.               *)

SigBytes(rank, n) == [i \in 1..n |-> IF i = 1 THEN rank ELSE (37 * rank + i) % 256]

Rank(iss, msg) ==
    IF \E i \in 1..Len(iss) : iss[i] = msg
    THEN CHOOSE i \in 1..Len(iss) : iss[i] = msg
    ELSE Len(iss) + 1

\* Signer::sign(message, sig): fills sig, which is n bytes long.
EngineSign(iss, msg, n) ==
    [issued |-> IF Rank(iss, msg) > Len(iss) THEN Append(iss, msg) ELSE iss,
     sig    |-> SigBytes(Rank(iss, msg), n)]

\* Engine::verify_signature(sig, message) is Ok.
EngineVerify(iss, keyLen, sig, msg) ==
    /\ FitsU16(keyLen)
    /\ Len(sig) = AsU16(keyLen)
    /\ \E i \in 1..Len(iss) : iss[i] = msg /\ sig = SigBytes(i, Len(sig))

----------------------------------------------------------------------------
(* The byte cursor (crate::io::Cursor). *)

\* impl From<io::Error> for manifest::Error, as `?` applies it.
FromIoError == "OutOfRange"

CursorNew(out) == [buf |-> out, pos |-> 0]

\* seek(SeekPos::Abs(n))
CursorSeek(c, n) ==
    IF n > Len(c.buf) THEN [ok |-> FALSE, c |-> c]
    ELSE [ok |-> TRUE, c |-> [c EXCEPT !.pos = n]]

\* write_bytes(bytes); write_le(v) is write_bytes of v's little-endian bytes.
CursorWrite(c, bytes) ==
    IF c.pos + Len(bytes) > Len(c.buf) THEN [ok |-> FALSE, c |-> c]
    ELSE [ok |-> TRUE,
          c  |-> [buf |-> [i \in 1..Len(c.buf) |->
                              IF c.pos < i /\ i <= c.pos + Len(bytes)
                              THEN bytes[i - c.pos] ELSE c.buf[i]],
                  pos |-> c.pos + Len(bytes)]]

\* consume_with_prior(n): the bytes before the position, and the next n.
CursorConsumeWithPrior(c, n) ==
    IF ~FitsU16(n) \/ c.pos + AsU16(n) > Len(c.buf)
    THEN [ok |-> FALSE, c |-> c, prior |-> <<>>]
    ELSE [ok |-> TRUE, c |-> [c EXCEPT !.pos = c.pos + AsU16(n)],
          prior |-> Slice(c.buf, 0, c.pos)]

\* take_consumed_bytes()
CursorTakeConsumed(c) == Slice(c.buf, 0, c.pos)

----------------------------------------------------------------------------
(* Containerizer. *)

\* Containerizer::new(out): [ok, b].
ContainerizerNew(out) ==
    LET r == CursorSeek(CursorNew(out), HEADER_LEN) IN
    [ok |-> r.ok,
     b  |-> [cursor |-> r.c, has_type |-> FALSE, has_metadata |-> FALSE]]

\* The seek and the write without the return to the mark.
PatchAndStay(c, off, bytes) ==
    LET r1 == CursorSeek(c, off)
        r2 == CursorWrite(r1.c, bytes)
    IN  [ok |-> r1.ok /\ r2.ok, c |-> r2.c]

\* The save-mark / seek / write / restore-mark sequence of with_type and
\* with_metadata: [ok, c].
PatchAt(c, off, bytes) ==
    LET mark == c.pos
        r1 == CursorSeek(c, off)
        r2 == CursorWrite(r1.c, bytes)
        r3 == CursorSeek(r2.c, mark)
    IN  [ok |-> r1.ok /\ r2.ok /\ r3.ok, c |-> r3.c]

\* with_type(manifest_type): [ok, b].
WithTypeOp(b, tag) ==
    LET r == PatchAt(b.cursor, TYPE_OFFSET, Le16(to_wire_value(tag))) IN
    [ok |-> r.ok, b |-> [b EXCEPT !.cursor = r.c, !.has_type = TRUE]]

\* with_metadata(metadata): [ok, b].
WithMetadataOp(b, id) ==
    LET r == PatchAt(b.cursor, ID_OFFSET, LeBytes(id)) IN
    [ok |-> r.ok, b |-> [b EXCEPT !.cursor = r.c, !.has_metadata = TRUE]]

\* Write::write_bytes(buf): [ok, b].
WriteBytesOp(b, bytes) ==
    LET r == CursorWrite(b.cursor, bytes) IN
    [ok |-> r.ok, b |-> [b EXCEPT !.cursor = r.c]]

\* One of the two calls is taken to be enough.
MissingBoth(b) == ~b.has_type /\ ~b.has_metadata

\* sign: with_type() and with_metadata() must have been called.
MissingState(b) == ~b.has_type \/ ~b.has_metadata

\* No check of the lengths against u16::MAX.
LengthsUnchecked(total_len, sig_len) == FALSE

\* sign: total_len > u16_max || sig_len > u16_max.
LengthsOutOfRange(total_len, sig_len) ==
    \/ ~Geq(ToLimbs(U16_MAX, Len(total_len)), total_len)
    \/ ~Geq(ToLimbs(U16_MAX, Len(sig_len)), sig_len)

\* The padding left zero.
PadZero == Le16(0)

\* sign: the "padding" bytes.
PadBytes == Le16(65535)

\* sign: the header fields it patches; the position is restored: [ok, c].
PatchLengths(c, total_len, sig_len) ==
    LET mark == c.pos
        r1 == CursorSeek(c, LEN_OFFSET)
        r2 == CursorWrite(r1.c, Le16(AsU16(total_len)))
        r3 == CursorSeek(r2.c, SIG_LEN_OFFSET)
        r4 == CursorWrite(r3.c, Le16(AsU16(sig_len)))
        r5 == CursorWrite(r4.c, PadBytes)
        r6 == CursorSeek(r5.c, mark)
    IN  [ok |-> r1.ok /\ r2.ok /\ r3.ok /\ r4.ok /\ r5.ok /\ r6.ok, c |-> r6.c]

SignFailed(kind, invoked, iss, c) ==
    [kind |-> kind, bytes |-> <<>>, invoked |-> invoked, issued |-> iss,
     cursor |-> c]

\* sign(signer): [kind, bytes, invoked, issued, cursor].  signerOk is whether
\* the signer's own sign call succeeds.
SignOp(b, keyLen, signerOk, iss) ==
    IF MissingState(b) THEN SignFailed("OutOfRange", FALSE, iss, b.cursor)
    ELSE
    LET sig_len == keyLen
        sum == CheckedAdd(ToLimbs(b.cursor.pos, Len(keyLen)), sig_len)
    IN
    IF ~sum.some THEN SignFailed(FromIoError, FALSE, iss, b.cursor)
    ELSE IF LengthsOutOfRange(sum.val, sig_len)
    THEN SignFailed("OutOfRange", FALSE, iss, b.cursor)
    ELSE
    LET p == PatchLengths(b.cursor, sum.val, sig_len) IN
    IF ~p.ok THEN SignFailed(FromIoError, FALSE, iss, p.c)
    ELSE
    LET s == CursorConsumeWithPrior(p.c, sig_len) IN
    IF ~s.ok THEN SignFailed(FromIoError, FALSE, iss, s.c)
    ELSE IF ~signerOk THEN SignFailed("SignatureFailure", TRUE, iss, s.c)
    ELSE
    LET e == EngineSign(iss, s.prior, AsU16(sig_len))
        w == CursorWrite(p.c, e.sig)
    IN  [kind |-> "Ok", bytes |-> CursorTakeConsumed(w.c), invoked |-> TRUE,
         issued |-> e.issued, cursor |-> w.c]

----------------------------------------------------------------------------
(* Container. *)

NoView ==
    [kind |-> "None", manifest_type |-> "none", version_id |-> <<0, 0>>,
     body |-> <<>>, len |-> 0, sig_len |-> 0, called |-> FALSE,
     vsig |-> <<>>, vmsg |-> <<>>]

\* usize::checked_sub: [some, val].
CheckedSub(a, b) == [some |-> a >= b, val |-> IF a >= b THEN a - b ELSE 0]

\* The length check off by one.
LenExceedsBufferByTwo(len, bufLen) == len > bufLen + 1

\* parse_and_verify: len > buf.len(), the container is longer than the buffer.
LenExceedsBuffer(len, bufLen) == len > bufLen

\* parse_and_verify: is &buf[..len][HEADER_LEN..] within bounds?  (len is at
\* most buf.len() here.)
RestInBounds(len) == HEADER_LEN <= len

\* parse_and_verify: the bytes handed to the engine as the message.
SignedRegion(buf, signed_len) == Slice(buf, 0, signed_len)

\* The body not split from the signature.
BodyWithSignature(rest, body_len) == rest

\* parse_and_verify: the body of the view, the first body_len bytes of rest.
BodyRegion(rest, body_len) == Slice(rest, 0, body_len)

\* parse_and_verify: the signature, what split_at leaves of rest.
SigRegion(rest, body_len) == Slice(rest, body_len, Len(rest))

\* The engine's answer ignored.
VerifySkipped(iss, keyLen, sig, signed) == TRUE

\* parse_and_verify: rsa.verify_signature(sig, signed) is Ok.
VerifyStep(iss, keyLen, sig, signed) == EngineVerify(iss, keyLen, sig, signed)

\* The magic number decoded before the engine is asked.
DecodeFirst(verified, mtype) ==
    IF mtype = "none" THEN "OutOfRange"
    ELSE IF ~verified THEN "SignatureFailure"
    ELSE "Ok"

\* parse_and_verify: the result once the lengths are in range: the engine's
\* answer first, the magic number's decoding after it.
Outcome(verified, mtype) ==
    IF ~verified THEN "SignatureFailure"
    ELSE IF mtype = "none" THEN "OutOfRange"
    ELSE "Ok"

\* Container::parse_and_verify(buf, rsa).  align is buf.as_ptr().align_offset(4).
\* The kind "Panic" is a slice index out of bounds.
ParseAndVerify(buf, align, iss, keyLen) ==
    IF align # 0 THEN [NoView EXCEPT !.kind = "Unaligned"]
    ELSE IF HEADER_LEN > Len(buf) THEN [NoView EXCEPT !.kind = "OutOfRange"]
    ELSE
    LET len     == U16At(buf, 0)
        magic   == U16At(buf, 2)
        id      == U32At(buf, 4)
        sig_len == U16At(buf, 8)
        read    == [NoView EXCEPT !.len = len, !.sig_len = sig_len]
    IN
    IF LenExceedsBuffer(len, Len(buf)) THEN [read EXCEPT !.kind = "OutOfRange"]
    ELSE IF len > Len(buf) \/ ~RestInBounds(len) THEN [read EXCEPT !.kind = "Panic"]
    ELSE
    LET rest     == Slice(Slice(buf, 0, len), HEADER_LEN, len)
        body_len == CheckedSub(Len(rest), sig_len)
    IN
    IF ~body_len.some THEN [read EXCEPT !.kind = "OutOfRange"]
    ELSE
    LET body       == BodyRegion(rest, body_len.val)
        sig        == SigRegion(rest, body_len.val)
        signed_len == CheckedSub(len, sig_len)
    IN
    IF ~signed_len.some THEN [read EXCEPT !.kind = "OutOfRange"]
    ELSE
    LET signed   == SignedRegion(buf, signed_len.val)
        verified == VerifyStep(iss, keyLen, sig, signed)
        mtype    == from_wire_value(magic)
        kind     == Outcome(verified, mtype)
    IN  [kind |-> kind,
         manifest_type |-> IF kind = "Ok" THEN mtype ELSE "none",
         version_id |-> IF kind = "Ok" THEN id ELSE <<0, 0>>,
         body |-> IF kind = "Ok" THEN body ELSE <<>>,
         len |-> len, sig_len |-> sig_len, called |-> TRUE,
         vsig |-> sig, vmsg |-> signed]

\* Only a strictly greater id replaces.
can_replace_strict(self, other) ==
    /\ self.manifest_type = other.manifest_type
    /\ ~Geq(other.version_id, self.version_id)

\* Container::can_replace(self, other)
can_replace(self, other) ==
    /\ self.manifest_type = other.manifest_type
    /\ Geq(self.version_id, other.version_id)

\* Container::containerize(signer, buf): [kind, bytes, issued].
ContainerizeOp(self, out, keyLen, signerOk, iss) ==
    LET n  == ContainerizerNew(out)
        t  == WithTypeOp(n.b, self.manifest_type)
        m  == WithMetadataOp(t.b, self.version_id)
        w  == WriteBytesOp(m.b, self.body)
        s  == SignOp(w.b, keyLen, signerOk, iss)
    IN  IF ~n.ok \/ ~t.ok \/ ~m.ok \/ ~w.ok
        THEN [kind |-> FromIoError, bytes |-> <<>>, issued |-> iss]
        ELSE [kind |-> s.kind, bytes |-> s.bytes, issued |-> s.issued]

----------------------------------------------------------------------------
(* The inputs of the model. *)

BodyBytes == {1, 254}
FillBytes == {0, 170}
\* The bytes of a buffer beyond the container.
ExtraBytes(n) == [i \in 1..n |-> 90]

SeqsUpTo(S, lo, hi) == UNION {[1..n -> S] : n \in lo..hi}

Bodies == SeqsUpTo(BodyBytes, 0, MaxBody)
Chunks == SeqsUpTo(BodyBytes, 1, MaxBody)

\* Version ids: 0x0000FFFF, 0x000155AA, 0xFFFFFFFF.
Ids == {<<65535, 0>>, <<21930, 1>>, <<65535, 65535>>}

\* Keys whose signatures the model writes out, and keys so long that sign
\* fails on its length checks: 0xFFFF - HEADER_LEN, 0xFFFF, 0x10000 and
\* usize::MAX on a 64-bit target.
SmallKeys == {ToLimbs(n, 4) : n \in 1..MaxSig}
BigKeys == {ToLimbs(U16_MAX - HEADER_LEN, 4), ToLimbs(U16_MAX, 4),
            ToLimbs(U16_MAX + 1, 4), <<U16_MAX, U16_MAX, U16_MAX, U16_MAX>>}

\* Lengths of the buffers handed to Containerizer::new.
BufLens == {HEADER_LEN - 1, HEADER_LEN + 1, HEADER_LEN + MaxBody + MaxSig + MaxExtra}

\* buf.as_ptr().align_offset(4): aligned, or not.
AlignOffsets == {0, 1}

\* Magic numbers of hand-assembled headers: the known ones and an unknown one.
Magics == {to_wire_value(t) : t \in Tags} \cup {0}

NoBuilder ==
    [cursor |-> CursorNew(<<>>), has_type |-> FALSE, has_metadata |-> FALSE]
NoGiven ==
    [tag |-> "none", id |-> <<0, 0>>, body |-> <<>>, align |-> 0, err |-> "none"]
NoSign == [kind |-> "None", bytes |-> <<>>, invoked |-> FALSE]
NoWire == [bytes |-> <<>>, align |-> 0, flip |-> <<>>, cut |-> FALSE]
NoRecon == [kind |-> "None", bytes |-> <<>>, outLen |-> 0, signerOk |-> FALSE]
NoReplace == [done |-> FALSE, other |-> NoView, result |-> FALSE]

----------------------------------------------------------------------------
(* raw_cbor!, the atom rule `$ty $(@$len)? : $arg`.  A u64 is four limbs. *)

\* A small number as a u64.
U64(n) == ToLimbs(n, 4)

\* to_be_bytes of a u16.
Be16(v) == <<(v \div 256) % 256, v % 256>>

\* to_be_bytes of a limb sequence.
BeBytes(l) ==
    [i \in 1..(2 * Len(l)) |-> Be16(l[Len(l) + 1 - ((i + 1) \div 2)])[2 - (i % 2)]]

\* `x as u8`: the low 8 bits.
AsU8(l) == l[1] % 256

\* `x as u32`: the low 32 bits.
AsU32(l) == <<l[1], l[2]>>

\* a | b on two bytes.
RECURSIVE BitOr(_, _)
BitOr(a, b) ==
    IF a = 0 THEN b
    ELSE IF b = 0 THEN a
    ELSE (IF a % 2 = 1 \/ b % 2 = 1 THEN 1 ELSE 0) + 2 * BitOr(a \div 2, b \div 2)

\* ty <<= 5 on a u8.
Shl5(ty) == (ty * 32) % 256

\* assert!(ty < 8)
MajorInRange(ty) == ty < 8

\* assert!(arg < 32), the forced width 0.
WithinHeadByte(arg) == FitsU16(arg) /\ arg[1] < 32

\* assert!(arg <= u8::MAX as u64)
WithinU8(arg) == FitsU16(arg) /\ arg[1] <= 255

\* The forced width 2 asserting the range of a u32.
WithinU16Wide(arg) == arg[3] = 0 /\ arg[4] = 0

\* assert!(arg <= u16::MAX as u64)
WithinU16(arg) == FitsU16(arg)

\* assert!(arg <= u32::MAX as u64)
WithinU32(arg) == arg[3] = 0 /\ arg[4] = 0

\* u8::try_from(arg) is Ok.
TryFromU8(arg) == arg[2] = 0 /\ arg[3] = 0 /\ arg[4] = 0 /\ arg[1] < 2 ^ 8

\* u16::try_from(arg) is Ok.
TryFromU16(arg) == arg[2] = 0 /\ arg[3] = 0 /\ arg[4] = 0

\* u32::try_from(arg) is Ok.
TryFromU32(arg) == arg[3] = 0 /\ arg[4] = 0

\* The head byte taking the argument 24 as well.
PacksInHeadOrEqual(arg) == arg <= 24

\* `if arg < 24` on the u8: the argument goes into the head byte.
PacksInHead(arg) == arg < 24

AtomPanic == [kind |-> "Panic", bytes |-> <<>>]
Emitted(bytes) == [kind |-> "Ok", bytes |-> bytes]

\* `if let Some(len) = len { match len { ... } }`
AtomForced(ty, len, arg) ==
    IF len = 0 THEN
        IF ~WithinHeadByte(arg) THEN AtomPanic
        ELSE Emitted(<<BitOr(ty, AsU8(arg))>>)
    ELSE IF len = 1 THEN
        IF ~WithinU8(arg) THEN AtomPanic
        ELSE Emitted(<<BitOr(ty, 24), AsU8(arg)>>)
    ELSE IF len = 2 THEN
        IF ~WithinU16(arg) THEN AtomPanic
        ELSE Emitted(<<BitOr(ty, 25)>> \o BeBytes(<<AsU16(arg)>>))
    ELSE IF len = 4 THEN
        IF ~WithinU32(arg) THEN AtomPanic
        ELSE Emitted(<<BitOr(ty, 26)>> \o BeBytes(AsU32(arg)))
    ELSE IF len = 8 THEN
        Emitted(<<BitOr(ty, 27)>> \o BeBytes(arg))
    ELSE AtomPanic

\* The else branch: no width was forced.
AtomMinimal(ty, arg) ==
    IF TryFromU8(arg) THEN
        IF PacksInHead(AsU8(arg)) THEN Emitted(<<BitOr(ty, AsU8(arg))>>)
        ELSE Emitted(<<BitOr(ty, 24), AsU8(arg)>>)
    ELSE IF TryFromU16(arg) THEN
        Emitted(<<BitOr(ty, 25)>> \o BeBytes(<<AsU16(arg)>>))
    ELSE IF TryFromU32(arg) THEN
        Emitted(<<BitOr(ty, 26)>> \o BeBytes(AsU32(arg)))
    ELSE Emitted(<<BitOr(ty, 27)>> \o BeBytes(arg))

\* One atom appended to an empty `out`.  len is <<>> for None, <<l>> for
\* Some(l).
Atom(major, len, arg) ==
    IF ~MajorInRange(major) THEN AtomPanic
    ELSE LET ty == Shl5(major) IN
         IF len # <<>> THEN AtomForced(ty, len[1], arg)
         ELSE AtomMinimal(ty, arg)

\* The arguments: those around each boundary between two size classes, the
\* two ends of the u64 range, and the 5 of the macro's test.
Args ==
    {U64(v) : v \in (0..ArgSpread) \cup {5}
                    \cup ((23 - ArgSpread)..(24 + ArgSpread))
                    \cup ((31 - ArgSpread)..(32 + ArgSpread))
                    \cup ((255 - ArgSpread)..(256 + ArgSpread))
                    \cup ((U16_MAX - ArgSpread)..U16_MAX)}
    \cup {<<v, 1, 0, 0>> : v \in 0..ArgSpread}
    \cup {<<U16_MAX - v, U16_MAX, 0, 0>> : v \in 0..ArgSpread}
    \cup {<<v, 0, 1, 0>> : v \in 0..ArgSpread}
    \cup {<<U16_MAX - v, U16_MAX, U16_MAX, U16_MAX>> : v \in 0..ArgSpread}

\* The major types: the eight of CBOR and the first the macro refuses.
Majors == 0..8

\* $(@$len)?: absent, the five widths of the match, and one it refuses.
Lens == {<<>>} \cup {<<l>> : l \in {0, 1, 2, 3, 4, 8}}

NoOut == [kind |-> "None", bytes |-> <<>>]
NoAtom == [ty |-> 0, len |-> <<>>, arg |-> U64(0), out |-> NoOut]

----------------------------------------------------------------------------
(* The state machine. *)

\* No container was built or parsed yet.
NoContainer ==
    /\ pubLen \in SmallKeys \cup BigKeys
    /\ issued = <<>>
    /\ phase = "idle"
    /\ builder = NoBuilder
    /\ given = NoGiven
    /\ signRes = NoSign
    /\ wire = NoWire
    /\ accepted = NoView
    /\ view = NoView
    /\ recon = NoRecon
    /\ replace = NoReplace

Init ==
    /\ NoContainer
    /\ cbor = NoAtom

\* Containerizer::new on a buffer of n bytes, each holding fill.
New(n, fill, align) ==
    /\ phase = "idle"
    /\ LET r == ContainerizerNew([i \in 1..n |-> fill]) IN
       /\ builder' = r.b
       /\ phase' = IF r.ok THEN "open" ELSE "dropped"
       /\ given' = [given EXCEPT !.align = align,
                                 !.err = IF r.ok THEN "none" ELSE FromIoError]
    /\ UNCHANGED <<cbor, pubLen, issued, signRes, wire, accepted, view, recon, replace>>

WithType(tag) ==
    /\ phase = "open"
    /\ LET r == WithTypeOp(builder, tag) IN
       /\ builder' = r.b
       /\ phase' = IF r.ok THEN "open" ELSE "dropped"
       /\ given' = IF r.ok THEN [given EXCEPT !.tag = tag, !.err = "none"]
                   ELSE [given EXCEPT !.err = FromIoError]
    /\ UNCHANGED <<cbor, pubLen, issued, signRes, wire, accepted, view, recon, replace>>

WithMetadata(id) ==
    /\ phase = "open"
    /\ LET r == WithMetadataOp(builder, id) IN
       /\ builder' = r.b
       /\ phase' = IF r.ok THEN "open" ELSE "dropped"
       /\ given' = IF r.ok THEN [given EXCEPT !.id = id, !.err = "none"]
                   ELSE [given EXCEPT !.err = FromIoError]
    /\ UNCHANGED <<cbor, pubLen, issued, signRes, wire, accepted, view, recon, replace>>

\* write_bytes: a failed write leaves the builder in use.
WriteBytes(chunk) ==
    /\ phase = "open"
    /\ Len(given.body) + Len(chunk) <= MaxBody
    /\ LET r == WriteBytesOp(builder, chunk) IN
       /\ builder' = r.b
       /\ given' = IF r.ok
                   THEN [given EXCEPT !.body = given.body \o chunk, !.err = "none"]
                   ELSE [given EXCEPT !.err = "BufferExhausted"]
    /\ UNCHANGED <<cbor, pubLen, issued, phase, signRes, wire, accepted, view, recon,
                   replace>>

\* sign: the bytes it returns are what the caller parses next.
Sign(signerOk) ==
    /\ phase = "open"
    /\ LET r == SignOp(builder, pubLen, signerOk, issued) IN
       /\ signRes' = [kind |-> r.kind, bytes |-> r.bytes, invoked |-> r.invoked]
       /\ issued' = r.issued
       /\ builder' = [builder EXCEPT !.cursor = r.cursor]
       /\ phase' = IF r.kind = "Ok" THEN "loaded" ELSE "signed"
       /\ wire' = IF r.kind = "Ok"
                  THEN [NoWire EXCEPT !.bytes = r.bytes, !.align = given.align]
                  ELSE wire
    /\ UNCHANGED <<cbor, pubLen, given, accepted, view, recon, replace>>

\* A container assembled by hand as the tests do: a header of any field
\* values, a body, pub_len signature bytes (signed by the key's holder, or
\* left zero) and extra bytes after them.
Mint(lenF, magic, id, sigF, pad, body, extra, align, signed) ==
    /\ phase = "idle"
    /\ pubLen \in SmallKeys
    /\ LET manifest == Le16(lenF) \o Le16(magic) \o LeBytes(id) \o Le16(sigF)
                       \o Le16(pad) \o body
           n == AsU16(pubLen)
           e == EngineSign(issued, manifest, n)
           sig == IF signed THEN e.sig ELSE [i \in 1..n |-> 0]
       IN
       /\ issued' = IF signed THEN e.issued ELSE issued
       /\ wire' = [NoWire EXCEPT
                     !.bytes = manifest \o sig \o ExtraBytes(extra),
                     !.align = align]
    /\ phase' = "loaded"
    /\ UNCHANGED <<cbor, pubLen, builder, given, signRes, accepted, view, recon, replace>>

\* Container::parse_and_verify on the buffer.
Parse ==
    /\ phase = "loaded"
    /\ view.kind = "None"
    /\ view' = ParseAndVerify(wire.bytes, wire.align, issued, pubLen)
    /\ UNCHANGED <<cbor, pubLen, issued, phase, builder, given, signRes, wire, accepted,
                   recon, replace>>

Untouched ==
    /\ phase = "loaded"
    /\ view.kind = "Ok"
    /\ wire.flip = <<>>
    /\ ~wire.cut
    /\ recon.kind = "None"
    /\ ~replace.done

\* One bit of an accepted container is inverted before it is parsed again.
Flip(i, bit) ==
    /\ Untouched
    /\ i < view.len
    /\ wire' = [wire EXCEPT !.bytes[i + 1] = FlipBit(wire.bytes[i + 1], bit),
                            !.flip = <<i, bit>>]
    /\ accepted' = view
    /\ view' = NoView
    /\ UNCHANGED <<cbor, pubLen, issued, phase, builder, given, signRes, recon, replace>>

\* An accepted container loses its last bytes before it is parsed again.
Truncate(n) ==
    /\ Untouched
    /\ n < Len(wire.bytes)
    /\ wire' = [wire EXCEPT !.bytes = Slice(wire.bytes, 0, n), !.cut = TRUE]
    /\ accepted' = view
    /\ view' = NoView
    /\ UNCHANGED <<cbor, pubLen, issued, phase, builder, given, signRes, recon, replace>>

\* Container::containerize into a buffer of n bytes, each holding fill.
Containerize(n, fill, signerOk) ==
    /\ Untouched
    /\ LET r == ContainerizeOp(view, [i \in 1..n |-> fill], pubLen, signerOk, issued) IN
       /\ recon' = [kind |-> r.kind, bytes |-> r.bytes, outLen |-> n,
                    signerOk |-> signerOk]
       /\ issued' = r.issued
    /\ UNCHANGED <<cbor, pubLen, phase, builder, given, signRes, wire, accepted, view,
                   replace>>

\* view.can_replace(other), other a container of any type and id.
CanReplace(tag, id) ==
    /\ Untouched
    /\ LET other == [NoView EXCEPT !.kind = "Ok", !.manifest_type = tag,
                                   !.version_id = id] IN
       replace' = [done |-> TRUE, other |-> other,
                   result |-> can_replace(view, other)]
    /\ UNCHANGED <<cbor, pubLen, issued, phase, builder, given, signRes, wire, accepted,
                   view, recon>>

\* The length fields of a hand-assembled header.
LenFields(actual) ==
    {0, HEADER_LEN - 1, HEADER_LEN, actual - 1, actual, actual + 1, U16_MAX}
SigLenFields(n) == {0, n, n + 1, U16_MAX}
Pads == {0, U16_MAX}

\* Each operation on every input of the model.
NewAny ==
    /\ phase = "idle"
    /\ \E n \in BufLens, fill \in FillBytes, align \in AlignOffsets :
          New(n, fill, align)

WithTypeAny == \E tag \in Tags : WithType(tag)

WithMetadataAny == \E id \in Ids : WithMetadata(id)

WriteBytesAny == \E chunk \in Chunks : WriteBytes(chunk)

SignAny == \E signerOk \in BOOLEAN : Sign(signerOk)

MintAny ==
    /\ phase = "idle"
    /\ pubLen \in SmallKeys
    /\ \E body \in Bodies, extra \in 0..MaxExtra, align \in AlignOffsets,
          signed \in BOOLEAN, magic \in Magics, id \in Ids, pad \in Pads :
          \E lenF \in LenFields(HEADER_LEN + Len(body) + AsU16(pubLen)),
             sigF \in SigLenFields(AsU16(pubLen)) :
             Mint(lenF, magic, id, sigF, pad, body, extra, align, signed)

FlipAny ==
    /\ Untouched
    /\ \E i \in 0..(view.len - 1), bit \in 0..7 : Flip(i, bit)

TruncateAny ==
    /\ Untouched
    /\ \E n \in 0..(Len(wire.bytes) - 1) : Truncate(n)

ContainerizeAny ==
    /\ Untouched
    /\ \E n \in BufLens, fill \in FillBytes, signerOk \in BOOLEAN :
          Containerize(n, fill, signerOk)

CanReplaceAny ==
    /\ Untouched
    /\ \E tag \in Tags, id \in Ids : CanReplace(tag, id)

Next ==
    \/ NewAny
    \/ WithTypeAny
    \/ WithMetadataAny
    \/ WriteBytesAny
    \/ SignAny
    \/ MintAny
    \/ Parse
    \/ FlipAny
    \/ TruncateAny
    \/ ContainerizeAny
    \/ CanReplaceAny

Spec == Init /\ [][Next]_vars

----------------------------------------------------------------------------
(* The atom rule on its own: one atom per behaviour. *)

InitCbor ==
    /\ NoContainer
    /\ \E ty \in Majors, len \in Lens, arg \in Args :
          cbor = [ty |-> ty, len |-> len, arg |-> arg, out |-> NoOut]

\* raw_cbor!(ty@len:arg) is evaluated.
EmitAtom ==
    /\ cbor.out.kind = "None"
    /\ cbor' = [cbor EXCEPT !.out = Atom(cbor.ty, cbor.len, cbor.arg)]
    /\ UNCHANGED <<pubLen, issued, phase, builder, given, signRes, wire, accepted,
                   view, recon, replace>>

NextCbor == EmitAtom

SpecCbor == InitCbor /\ [][NextCbor]_vars

----------------------------------------------------------------------------
(* What the properties below read off a state. *)

\* The buffer came from sign and was not touched since.
BuiltAndParsed ==
    /\ signRes.kind = "Ok"
    /\ wire.flip = <<>>
    /\ ~wire.cut
    /\ view.kind # "None"

RoundTrips ==
    /\ view.kind = "Ok"
    /\ view.manifest_type = given.tag
    /\ view.version_id = given.id
    /\ view.body = given.body

\* Claim C1 as stated: building with new, with_type(tag), with_metadata(id),
\* write_bytes(body), sign and parsing the returned bytes succeeds and yields
\* the tag, the id and the body, whatever the output buffer.
C1_RoundTripAnyBuffer == BuiltAndParsed => RoundTrips

\* Claim C1, amended: when the output buffer is aligned to four bytes, parsing
\* the bytes sign returned succeeds and yields the tag last given to with_type,
\* the id last given to with_metadata and the bytes written.
C1_RoundTrip == (BuiltAndParsed /\ given.align = 0) => RoundTrips

C1_Witness ==
    /\ BuiltAndParsed
    /\ given.align = 0
    /\ RoundTrips
    /\ Len(given.body) = MaxBody
    /\ given.id = <<65535, 65535>>

----------------------------------------------------------------------------
\* The container was assembled by hand, accepted, and re-serialised.
Reserialised ==
    /\ view.kind = "Ok"
    /\ recon.kind # "None"

\* Claim C2: a container that was accepted, whose padding is 0xFFFF and whose
\* buffer is exactly total_len long, is re-serialised by containerize, with the
\* same deterministic signer and a buffer at least as long, to the very bytes
\* that were parsed.
C2_ByteExactRoundTrip ==
    (/\ Reserialised
     /\ U16At(wire.bytes, 10) = U16_MAX
     /\ Len(wire.bytes) = U16At(wire.bytes, 0)
     /\ recon.outLen >= Len(wire.bytes)
     /\ recon.signerOk)
    => (recon.kind = "Ok" /\ recon.bytes = wire.bytes)

C2_Witness ==
    /\ Reserialised
    /\ signRes.kind = "None"
    /\ U16At(wire.bytes, 10) = U16_MAX
    /\ Len(wire.bytes) = U16At(wire.bytes, 0)
    /\ Len(view.body) = MaxBody
    /\ recon.kind = "Ok"
    /\ recon.bytes = wire.bytes

----------------------------------------------------------------------------
\* Claim C3: parse_and_verify returns Ok only if the engine was asked about
\* signature = buf[total_len - sig_len .. total_len] and message =
\* buf[0 .. total_len - sig_len] and accepted them; the body returned is
\* buf[HEADER_LEN .. total_len - sig_len], of total_len - HEADER_LEN - sig_len
\* bytes, with total_len <= buf.len() and sig_len <= total_len - HEADER_LEN.
C3_WitnessOfAuthenticity ==
    view.kind = "Ok" =>
        LET total_len == U16At(wire.bytes, 0)
            sig_len   == U16At(wire.bytes, 8)
        IN  /\ total_len <= Len(wire.bytes)
            /\ HEADER_LEN <= total_len
            /\ sig_len <= total_len - HEADER_LEN
            /\ view.called
            /\ view.vsig = Slice(wire.bytes, total_len - sig_len, total_len)
            /\ view.vmsg = Slice(wire.bytes, 0, total_len - sig_len)
            /\ EngineVerify(issued, pubLen, view.vsig, view.vmsg)
            /\ view.body = Slice(wire.bytes, HEADER_LEN, total_len - sig_len)
            /\ Len(view.body) = total_len - HEADER_LEN - sig_len

C3_Witness ==
    /\ view.kind = "Ok"
    /\ Len(view.body) = MaxBody
    /\ Len(wire.bytes) > U16At(wire.bytes, 0)
    /\ U16At(wire.bytes, 8) = MaxSig

----------------------------------------------------------------------------
\* One bit of an accepted container was inverted and the buffer parsed again.
FlippedAndParsed ==
    /\ wire.flip # <<>>
    /\ view.kind # "None"

\* The flipped bit lies in the header, in one of the two length fields.
FlipInHeader == wire.flip[1] < HEADER_LEN
FlipInLengths ==
    wire.flip[1] \in {LEN_OFFSET, LEN_OFFSET + 1, SIG_LEN_OFFSET, SIG_LEN_OFFSET + 1}

\* Claim C4 as stated: flipping any single bit of the 12 header bytes of a
\* valid container makes parse_and_verify return Err(SignatureFailure).
C4_HeaderFlipIsSignatureFailure ==
    (FlippedAndParsed /\ FlipInHeader) => view.kind = "SignatureFailure"

\* Claim C4, amended: after such a flip parse_and_verify never returns Ok.  A
\* flip in magic, id or pad gives Err(SignatureFailure).  A flip in total_len
\* or sig_len gives Err(OutOfRange) when the new total_len exceeds the buffer
\* or the new sig_len exceeds total_len - HEADER_LEN, a panic when the new
\* total_len is below HEADER_LEN, and Err(SignatureFailure) otherwise.
C4_HeaderFlipIsRejected ==
    (FlippedAndParsed /\ FlipInHeader) =>
        LET total_len == U16At(wire.bytes, 0)
            sig_len   == U16At(wire.bytes, 8)
        IN  /\ view.kind # "Ok"
            /\ ~FlipInLengths => view.kind = "SignatureFailure"
            /\ FlipInLengths =>
                 view.kind = IF total_len > Len(wire.bytes) THEN "OutOfRange"
                             ELSE IF total_len < HEADER_LEN THEN "Panic"
                             ELSE IF sig_len > total_len - HEADER_LEN THEN "OutOfRange"
                             ELSE "SignatureFailure"

\* A flip in the magic number that leaves no known type, one in total_len
\* that still fits, and the verdict.
C4_Witness ==
    /\ FlippedAndParsed
    /\ wire.flip[1] = TYPE_OFFSET
    /\ from_wire_value(U16At(wire.bytes, 2)) = "none"
    /\ view.kind = "SignatureFailure"

----------------------------------------------------------------------------
\* Claim C5: flipping any single bit of the body or of the signature of a
\* valid container, the header left as it is, makes parse_and_verify return
\* Err(SignatureFailure).
C5_BodyAndSignatureFlip ==
    (FlippedAndParsed /\ ~FlipInHeader) => view.kind = "SignatureFailure"

\* A flip in the last signature byte of a container with a body.
C5_Witness ==
    /\ FlippedAndParsed
    /\ wire.flip[1] = accepted.len - 1
    /\ accepted.sig_len = MaxSig
    /\ Len(accepted.body) > 0
    /\ view.kind = "SignatureFailure"

----------------------------------------------------------------------------
\* Claim C6: on an aligned buffer of any length and contents no slice index
\* of parse_and_verify is out of bounds, and whenever the decoded sig_len
\* exceeds total_len - HEADER_LEN, total_len below HEADER_LEN included, the
\* call returns Err(OutOfRange).
C6_BoundsSafe ==
    (view.kind # "None" /\ wire.align = 0) =>
        /\ view.kind # "Panic"
        /\ (/\ Len(wire.bytes) >= HEADER_LEN
            /\ U16At(wire.bytes, 8) > U16At(wire.bytes, 0) - HEADER_LEN)
           => view.kind = "OutOfRange"

----------------------------------------------------------------------------
\* a >= b as unsigned 32-bit values, high half first.
U32Geq(a, b) == a[2] > b[2] \/ (a[2] = b[2] /\ a[1] >= b[1])

\* Claim C7: a.can_replace(b) is true exactly when the types are equal and
\* a's version id is greater than or equal to b's as unsigned 32-bit values.
C7_RollbackGate ==
    replace.done =>
        (replace.result <=>
            /\ view.manifest_type = replace.other.manifest_type
            /\ U32Geq(view.version_id, replace.other.version_id))

\* Equal ids of one type: accepted.
C7_Witness ==
    /\ replace.done
    /\ replace.result
    /\ view.version_id = replace.other.version_id
    /\ view.version_id = <<65535, 65535>>

----------------------------------------------------------------------------
\* with_type (with_metadata) was never called with success on this builder.
TypeNeverGiven == given.tag = "none"
MetadataNeverGiven == given.id \notin Ids

\* sign returned in this step.
SignReturns == signRes.kind = "None" /\ signRes'.kind # "None"

\* Claim C8: when with_type or with_metadata was never called, sign returns
\* Err(OutOfRange) and the signer is not invoked; and a has-flag that is set
\* stays set for as long as the builder is in use.
C8_MissingBuilderState ==
    /\ []((signRes.kind # "None" /\ (TypeNeverGiven \/ MetadataNeverGiven))
          => (signRes.kind = "OutOfRange" /\ ~signRes.invoked /\ issued = <<>>))
    /\ [][phase = "open" =>
            /\ builder.has_type => builder'.has_type
            /\ builder.has_metadata => builder'.has_metadata]_vars

\* sign refused a builder that has its type and a body but no metadata.
C8_Witness ==
    /\ signRes.kind = "OutOfRange"
    /\ ~TypeNeverGiven
    /\ MetadataNeverGiven
    /\ builder.has_type
    /\ Len(given.body) > 0
    /\ FitsU16(pubLen)

----------------------------------------------------------------------------
\* HEADER_LEN + body + sig_len > 0xFFFF, or sig_len alone is.
LengthOverflows ==
    \/ ~FitsU16(pubLen)
    \/ HEADER_LEN + Len(given.body) + AsU16(pubLen) > U16_MAX

\* Claim C9: sign on a builder with type and metadata set, when HEADER_LEN +
\* body + signature length exceeds 0xFFFF, returns Err(OutOfRange) with the
\* signer not invoked and no byte of the buffer written; and the header of the
\* bytes sign returns holds total_len and sig_len in full, never cut to 16 bits.
C9_LengthOverflow ==
    [][(SignReturns /\ ~TypeNeverGiven /\ ~MetadataNeverGiven) =>
          /\ LengthOverflows =>
               /\ signRes'.kind = "OutOfRange"
               /\ ~signRes'.invoked
               /\ builder'.cursor.buf = builder.cursor.buf
          /\ signRes'.kind = "Ok" =>
               /\ ~LengthOverflows
               /\ U16At(signRes'.bytes, LEN_OFFSET)
                    = HEADER_LEN + Len(given.body) + AsU16(pubLen)
               /\ U16At(signRes'.bytes, SIG_LEN_OFFSET) = AsU16(pubLen)]_vars

\* A one-byte body with a key of 0xFFFF - HEADER_LEN bytes: 0x10000 in all.
C9_Witness ==
    /\ signRes.kind = "OutOfRange"
    /\ ~TypeNeverGiven
    /\ ~MetadataNeverGiven
    /\ pubLen = ToLimbs(U16_MAX - HEADER_LEN, 4)
    /\ Len(given.body) = 1

----------------------------------------------------------------------------
\* The lengths of the buffer's header pass every check before the engine.
LengthsInRange ==
    /\ wire.align = 0
    /\ Len(wire.bytes) >= HEADER_LEN
    /\ U16At(wire.bytes, 0) <= Len(wire.bytes)
    /\ U16At(wire.bytes, 0) >= HEADER_LEN
    /\ U16At(wire.bytes, 8) <= U16At(wire.bytes, 0) - HEADER_LEN

UnknownMagic == from_wire_value(U16At(wire.bytes, 2)) = "none"

SignatureVerifies ==
    LET total_len == U16At(wire.bytes, 0)
        sig_len   == U16At(wire.bytes, 8)
    IN  EngineVerify(issued, pubLen,
                     Slice(wire.bytes, total_len - sig_len, total_len),
                     Slice(wire.bytes, 0, total_len - sig_len))

\* Claim C10: the magic number is decoded only after the engine accepted the
\* signature: with lengths in range, an unknown magic under a signature that
\* does not verify gives Err(SignatureFailure), and Err(OutOfRange) is given
\* for an unknown magic only under a signature that verifies.
C10_VerifyBeforeDecode ==
    (view.kind # "None" /\ LengthsInRange) =>
        /\ ~SignatureVerifies => view.kind = "SignatureFailure"
        /\ view.kind = "OutOfRange" => (UnknownMagic /\ SignatureVerifies)
        /\ (UnknownMagic /\ SignatureVerifies) => view.kind = "OutOfRange"

\* An unknown magic in a buffer nobody signed.
C10_Witness ==
    /\ view.kind = "SignatureFailure"
    /\ LengthsInRange
    /\ UnknownMagic
    /\ wire.flip = <<>>
    /\ ~wire.cut

----------------------------------------------------------------------------
\* An accepted container lost bytes of its own (not only bytes that followed
\* it in the buffer) and was parsed again.
CutShortAndParsed ==
    /\ wire.cut
    /\ Len(wire.bytes) < accepted.len
    /\ view.kind # "None"

\* The buffer is shorter than a header, or than the total_len in its header.
ShortBuffer ==
    \/ Len(wire.bytes) < HEADER_LEN
    \/ Len(wire.bytes) < U16At(wire.bytes, 0)

RejectedBeforeEngine == view.kind = "OutOfRange" /\ ~view.called

\* Claim C11 as stated: a valid container that lost trailing bytes is never
\* accepted, and any input shorter than HEADER_LEN or than its decoded
\* total_len is rejected with Err(OutOfRange) before the engine is asked.
C11_ShortBufferAnyInput ==
    /\ CutShortAndParsed => view.kind # "Ok"
    /\ (view.kind # "None" /\ ShortBuffer) => RejectedBeforeEngine

\* Claim C11, amended: a valid container that lost trailing bytes is never
\* accepted, and any 4-byte-aligned input shorter than HEADER_LEN or than its
\* decoded total_len is rejected with Err(OutOfRange) before the engine is
\* asked (an input that is not aligned is rejected with Err(Unaligned)).
C11_ShortBuffer ==
    /\ CutShortAndParsed => view.kind # "Ok"
    /\ (view.kind # "None" /\ ShortBuffer /\ wire.align = 0) => RejectedBeforeEngine
    /\ (view.kind # "None" /\ wire.align # 0) => view.kind = "Unaligned"

\* A container with a body that lost its last byte only.
C11_Witness ==
    /\ CutShortAndParsed
    /\ Len(wire.bytes) = accepted.len - 1
    /\ Len(accepted.body) = MaxBody
    /\ RejectedBeforeEngine

----------------------------------------------------------------------------
(* The head of a CBOR data item as a decoder reads it (RFC 8949, section 3):
   three bits of major type, five bits of additional information, and for
   the additional information 24, 25, 26, 27 an argument of 1, 2, 4, 8
   big-endian bytes. *)

NoHead == [ok |-> FALSE, major |-> 0, arg |-> U64(0), used |-> 0]

\* The number of argument bytes that follow the head byte; -1 where the
\* additional information does not announce a definite argument.
ArgBytes(info) ==
    IF info < 24 THEN 0
    ELSE IF info = 24 THEN 1
    ELSE IF info = 25 THEN 2
    ELSE IF info = 26 THEN 4
    ELSE IF info = 27 THEN 8
    ELSE -1

\* from_be_bytes of at most eight bytes, as a u64.
FromBe(bytes) ==
    LET padded == [i \in 1..(8 - Len(bytes)) |-> 0] \o bytes
    IN  [i \in 1..4 |-> 256 * padded[9 - 2 * i] + padded[10 - 2 * i]]

DecodeHead(bytes) ==
    IF bytes = <<>> THEN NoHead
    ELSE LET info == bytes[1] % 32
             k == ArgBytes(info)
         IN  IF k = -1 \/ Len(bytes) < 1 + k THEN NoHead
             ELSE [ok |-> TRUE,
                   major |-> bytes[1] \div 32,
                   arg |-> IF k = 0 THEN U64(info) ELSE FromBe(SubSeq(bytes, 2, 1 + k)),
                   used |-> 1 + k]

\* The bytes are exactly one head, of major type m and argument n, with w
\* argument bytes.
ReadsBack(bytes, m, n, w) ==
    /\ Len(bytes) = 1 + w
    /\ DecodeHead(bytes) = [ok |-> TRUE, major |-> m, arg |-> n, used |-> 1 + w]

\* Unsigned a < b.
Below(a, b) == ~Geq(a, b)

\* 2^32 as a u64.
TwoTo32 == <<0, 0, 1, 0>>

\* The last k bytes of the big-endian argument.
LowBytes(n, k) == SubSeq(BeBytes(n), 9 - k, 8)

\* The head of (m, n) in the smallest size class that fits n.
SmallestHead(m, n) ==
    IF Below(n, U64(24)) THEN <<m * 32 + n[1]>>
    ELSE IF Below(n, U64(256)) THEN <<m * 32 + 24>> \o LowBytes(n, 1)
    ELSE IF Below(n, U64(65536)) THEN <<m * 32 + 25>> \o LowBytes(n, 2)
    ELSE IF Below(n, TwoTo32) THEN <<m * 32 + 26>> \o LowBytes(n, 4)
    ELSE <<m * 32 + 27>> \o LowBytes(n, 8)

\* An atom of a valid major type was emitted without a forced width.
MinimalAtomEmitted ==
    /\ cbor.out.kind # "None"
    /\ cbor.len = <<>>
    /\ cbor.ty < 8

\* Claim C12: an atom without a forced width, of major type m < 8 and
\* argument n, is the head byte (m << 5) | size class followed by the
\* big-endian argument in the smallest size class that fits n (below 24 in
\* the head byte, then 1, 2, 4, 8 bytes), and it never panics; a decoder
\* reads (m, n) back from it.
C12_MinimalEncoding ==
    MinimalAtomEmitted =>
        /\ cbor.out = Emitted(SmallestHead(cbor.ty, cbor.arg))
        /\ ReadsBack(cbor.out.bytes, cbor.ty, cbor.arg, Len(cbor.out.bytes) - 1)

\* raw_cbor!(1:(1 << 32)) of the macro's test.
C12_Witness ==
    /\ MinimalAtomEmitted
    /\ cbor.ty = 1
    /\ cbor.arg = TwoTo32
    /\ cbor.out = Emitted(<<59, 0, 0, 0, 1, 0, 0, 0, 0>>)

\* The macro's test, atom by atom.
TestVectors ==
    /\ Atom(0, <<>>, U64(0)) = Emitted(<<0>>)
    /\ Atom(1, <<>>, U64(23)) = Emitted(<<55>>)
    /\ Atom(1, <<>>, U64(24)) = Emitted(<<56, 24>>)
    /\ Atom(1, <<>>, U64(256)) = Emitted(<<57, 1, 0>>)
    /\ Atom(1, <<>>, U64(65536)) = Emitted(<<58, 0, 1, 0, 0>>)
    /\ Atom(1, <<>>, TwoTo32) = Emitted(<<59, 0, 0, 0, 1, 0, 0, 0, 0>>)
    /\ Atom(4, <<2>>, U64(5)) = Emitted(<<153, 0, 5>>)

----------------------------------------------------------------------------
\* An atom of a valid major type was emitted with one of the five widths.
ForcedAtomEmitted ==
    /\ cbor.out.kind # "None"
    /\ cbor.ty < 8
    /\ cbor.len # <<>>
    /\ cbor.len[1] \in {0, 1, 2, 4, 8}

\* Width w cannot hold n, the head byte holding the values below 24.
CannotHold(w, n) ==
    \/ w = 0 /\ Geq(n, U64(24))
    \/ w = 1 /\ Geq(n, U64(256))
    \/ w = 2 /\ Geq(n, U64(65536))
    \/ w = 4 /\ Geq(n, TwoTo32)

\* Width 0 with an argument of 24..31: five bits, but not a packed value.
RawInfo(w, n) == w = 0 /\ Geq(n, U64(24)) /\ Below(n, U64(32))

\* Claim C13 as stated: with a forced width w in {0, 1, 2, 4, 8} the emitter
\* panics if w cannot hold n (w = 0: n >= 24; w = 1, 2, 4: n >= 2^(8w)), and
\* otherwise emits one head that a decoder reads back as (m, n), consuming
\* exactly 1 + w bytes.
C13_ForcedWidthBelow24 ==
    ForcedAtomEmitted =>
        IF CannotHold(cbor.len[1], cbor.arg) THEN cbor.out = AtomPanic
        ELSE /\ cbor.out.kind = "Ok"
             /\ ReadsBack(cbor.out.bytes, cbor.ty, cbor.arg, cbor.len[1])

\* Claim C13, amended: as stated, except that width 0 panics only for
\* n >= 32; for 24 <= n < 32 the emitter writes the single byte (m << 5) | n,
\* which no decoder reads back as the head of (m, n).
C13_ForcedWidth ==
    ForcedAtomEmitted =>
        IF RawInfo(cbor.len[1], cbor.arg)
        THEN /\ cbor.out = Emitted(<<cbor.ty * 32 + cbor.arg[1]>>)
             /\ ~DecodeHead(cbor.out.bytes).ok
        ELSE IF CannotHold(cbor.len[1], cbor.arg) THEN cbor.out = AtomPanic
        ELSE /\ cbor.out.kind = "Ok"
             /\ ReadsBack(cbor.out.bytes, cbor.ty, cbor.arg, cbor.len[1])

\* raw_cbor!(4@0:24): no panic, and the one byte 0x98.
C13_Witness ==
    /\ ForcedAtomEmitted
    /\ cbor.ty = 4
    /\ cbor.len = <<0>>
    /\ cbor.arg = U64(24)
    /\ cbor.out = Emitted(<<152>>)

----------------------------------------------------------------------------
\* new differs from old at most in the bytes at offsets from..to-1.
SameOutside(old, new, from, to) ==
    /\ Len(new) = Len(old)
    /\ \A i \in 1..Len(old) : (i <= from \/ i > to) => new[i] = old[i]

\* with_type and with_metadata, in either order, on the builder as it is.
HeaderCallsCommute ==
    \A tag \in Tags, id \in Ids :
        WithMetadataOp(WithTypeOp(builder, tag).b, id)
            = WithTypeOp(WithMetadataOp(builder, id).b, tag)

\* Claim C14: with_type and with_metadata leave consumed_len and every byte
\* outside offsets 2..4 (type) and 4..8 (id) unchanged, also after body bytes
\* were written, and write_bytes leaves bytes 0..HEADER_LEN unchanged; so
\* after any interleaving of the three calls the write position is HEADER_LEN
\* plus the number of body bytes appended, the body bytes are in place, the
\* two header calls commute, and the header holds the last type and the last
\* id written.
C14_HeaderPatching ==
    /\ [](phase = "open" =>
            /\ builder.cursor.pos = HEADER_LEN + Len(given.body)
            /\ Slice(builder.cursor.buf, HEADER_LEN, builder.cursor.pos) = given.body
            /\ builder.has_type =>
                 U16At(builder.cursor.buf, TYPE_OFFSET) = to_wire_value(given.tag)
            /\ builder.has_metadata =>
                 U32At(builder.cursor.buf, ID_OFFSET) = given.id
            /\ HeaderCallsCommute)
    /\ [][/\ WithTypeAny =>
               /\ builder'.cursor.pos = builder.cursor.pos
               /\ SameOutside(builder.cursor.buf, builder'.cursor.buf,
                              TYPE_OFFSET, ID_OFFSET)
          /\ WithMetadataAny =>
               /\ builder'.cursor.pos = builder.cursor.pos
               /\ SameOutside(builder.cursor.buf, builder'.cursor.buf,
                              ID_OFFSET, SIG_LEN_OFFSET)
          /\ WriteBytesAny =>
               Slice(builder'.cursor.buf, 0, HEADER_LEN)
                   = Slice(builder.cursor.buf, 0, HEADER_LEN)]_vars

\* A full body, then both header calls: the position is still behind the
\* body and the header holds the type and the id.
C14_Witness ==
    /\ phase = "open"
    /\ Len(given.body) = MaxBody
    /\ builder.has_type
    /\ builder.has_metadata
    /\ builder.cursor.pos = HEADER_LEN + MaxBody
    /\ U16At(builder.cursor.buf, TYPE_OFFSET) = to_wire_value("Pfm")
    /\ U32At(builder.cursor.buf, ID_OFFSET) = <<U16_MAX, U16_MAX>>

====
